---- MODULE Spec2Model ----
(***************************************************************************)
(* Model of the AgentBay Python SDK:                                       *)
(*   - agentbay/llms/gemini/chat.py      wrapped_generate_content and      *)
(*                                       instrument_chat                   *)
(*   - agentbay/llms/gemini/__init__.py  instrument                        *)
(*   - agentbay/client.py                AgentBay.initialize,              *)
(*                                       get_instance, shutdown            *)
(* Three specifications share the module's variables:                      *)
(*   Spec        one wrapped generate_content call, for every input        *)
(*   SpecInstr   instrument() / instrument_chat() and the binding          *)
(*   SpecClient  the client's init / get / shutdown lifecycle              *)
(***************************************************************************)
EXTENDS Integers, Sequences, FiniteSets, TLC

VARIABLES
    \* ---- one wrapped call (chat.py 34-122)
    pc,            \* position of the wrapper
    call,          \* the caller's receiver, args, kwargs and what the original does
    span,          \* the span opened at chat.py 42
    active,        \* TRUE while the span is the current span of the context
    origCalls,     \* invocations of original_generate_content: <<[self, args, kwargs]>>
    opState,       \* the original operation: "none", "completed", "failed", "pending"
    response,      \* local variable response (chat.py 63)
    exc,           \* exception in flight, NoExc when none
    outcome,       \* what the caller observes
    \* ---- instrumentation (chat.py 10-31, 124; __init__.py 3-14)
    env,           \* what is importable, and the environment variables
    depth,         \* wrappers stacked on GenerativeModel.generate_content
    grpcInstrumented,
    instrCalls,
    lastInstr,
    lastCall,
    \* ---- client lifecycle (client.py)
    instance,      \* AgentBay._instance: 0 is None, else a client id
    clients,       \* every AgentBay constructed, by id
    globalProvider,\* the process-wide tracer provider: 0 or the owning client id
    ended,         \* spans ended so far, ids 1..ended
    handed,        \* span ids handed to an exporter
    dropped,       \* span ids dropped by a processor
    last,          \* the last API operation and its result
    hist           \* history: instances initialize() has returned

callVars == <<pc, call, span, active, origCalls, opState, response, exc, outcome>>
instrVars == <<env, depth, grpcInstrumented, instrCalls, lastInstr, lastCall>>
clientVars == <<instance, clients, globalProvider, ended, handed, dropped, last, hist>>
vars == <<callVars, instrVars, clientVars>>

(***************************************************************************)
(* Bounds                                                                  *)
(***************************************************************************)
MaxFunctionCalls == 2
MaxInstrument == 4
MaxClients == 2
MaxSpans == 3
MaxQueue == 2

(***************************************************************************)
(* Python values.  repr is str(v); json is json.dumps(v), "" when it       *)
(* raises TypeError; truthy is bool(v); isList / isDict are isinstance.    *)
(***************************************************************************)
PyVal(kind, repr, json, truthy, len) ==
    [kind |-> kind, repr |-> repr, json |-> json, truthy |-> truthy, len |-> len]

Missing == PyVal("missing", "", "", FALSE, 0)
PyNone == PyVal("none", "None", "null", FALSE, 0)
EmptyList == PyVal("list", "[]", "[]", FALSE, 0)
Hello == PyVal("str", "hello", "\"hello\"", TRUE, 5)
HelloList == PyVal("list", "['hello']", "[\"hello\"]", TRUE, 1)
KwHello == PyVal("str", "from-keyword", "\"from-keyword\"", TRUE, 12)
ToolDecls == PyVal("list", "[{'name': 'get_weather'}]", "[{\"name\": \"get_weather\"}]", TRUE, 1)
ToolObjects == PyVal("list", "[<Tool get_weather>]", "", TRUE, 1)
ToolObject == PyVal("obj", "<Tool get_weather>", "", TRUE, 0)
ArgsDict == PyVal("dict", "{'city': 'Oslo'}", "{\"city\": \"Oslo\"}", TRUE, 1)
ArgsOpaque == PyVal("dict", "{'when': <Timestamp>}", "", TRUE, 1)
ArgsText == PyVal("str", "city=Oslo", "\"city=Oslo\"", TRUE, 9)

\* str(v)
PyStr(v) == v.repr

\* json.dumps(v) raises TypeError
JsonRaises(v) == v.json = ""

isListOrDict(v) == v.kind \in {"list", "dict"}

(***************************************************************************)
(* Span attribute values                                                   *)
(***************************************************************************)
Unset == [t |-> "unset", s |-> "", n |-> 0, items |-> <<>>]
StrAttr(s) == [t |-> "str", s |-> s, n |-> 0, items |-> <<>>]
IntAttr(n) == [t |-> "int", s |-> "", n |-> n, items |-> <<>>]
\* a string holding the JSON text of a list of dicts
JsonListAttr(items) == [t |-> "json", s |-> "", n |-> 0, items |-> items]

AttrKeys ==
    {"llm.system", "llm.request.model", "llm.request.messages",
     "llm.request.tools", "llm.request.tool_count",
     "llm.response.content", "llm.response.function_calls",
     "llm.response.function_call_count",
     "llm.usage.prompt_tokens", "llm.usage.completion_tokens",
     "llm.usage.total_tokens"}

ResponseKeys ==
    {"llm.response.content", "llm.response.function_calls",
     "llm.response.function_call_count",
     "llm.usage.prompt_tokens", "llm.usage.completion_tokens",
     "llm.usage.total_tokens"}

NoExc == [type |-> "", msg |-> "", id |-> 0]
NoStatus == [code |-> "UNSET", type |-> "", msg |-> ""]
NoSpan ==
    [name |-> [op |-> "", model |-> ""], started |-> FALSE, open |-> FALSE,
     attrs |-> [k \in AttrKeys |-> Unset], status |-> NoStatus,
     events |-> <<>>, ends |-> 0]

\* span.set_attribute(key, value)
set_attribute(sp, key, value) == [sp EXCEPT !.attrs[key] = value]

\* span.set_status(Status(code, description)); an OK status is final
set_status(sp, st) ==
    IF sp.status.code = "OK" THEN sp ELSE [sp EXCEPT !.status = st]

\* span.record_exception(e)
record_exception(sp, e) == [sp EXCEPT !.events = Append(@, e)]

(***************************************************************************)
(* The caller's inputs and the behaviours of the original                  *)
(* GenerativeModel.generate_content                                        *)
(***************************************************************************)
GeminiPro == PyVal("str", "gemini-pro", "\"gemini-pro\"", TRUE, 10)
Hi == PyVal("str", "hi", "\"hi\"", TRUE, 2)
EmptyText == PyVal("str", "", "\"\"", FALSE, 0)
GetWeather == PyVal("str", "get_weather", "\"get_weather\"", TRUE, 11)
Sunny == PyVal("str", "sunny", "\"sunny\"", TRUE, 5)
Timeout == PyVal("str", "timeout", "\"timeout\"", TRUE, 7)

\* an attribute of an object: absent, present with value v, or a property
\* whose getter raises something other than AttributeError
Absent == [st |-> "absent", v |-> Missing]
Raising == [st |-> "raises", v |-> Missing]
Present(v) == [st |-> "present", v |-> v]
\* the same for an attribute that holds a sequence
AbsentList == [st |-> "absent", v |-> <<>>]
RaisingList == [st |-> "raises", v |-> <<>>]

Receivers == {[model_name |-> Absent], [model_name |-> Present(GeminiPro)]}
ArgLists == {<<>>, <<Hello>>, <<HelloList>>}
KwContents == {Missing, KwHello}
KwTools == {Missing, EmptyList, ToolDecls, ToolObjects, ToolObject}

\* the entries of candidate.function_calls
FunctionCalls ==
    {[name |-> Present(GetWeather), arguments |-> Present(ArgsDict),
      response |-> Present(Sunny), error |-> Absent],
     [name |-> Absent, arguments |-> Present(ArgsOpaque),
      response |-> Absent, error |-> Present(Timeout)],
     [name |-> Present(GetWeather), arguments |-> Absent,
      response |-> Absent, error |-> Absent],
     [name |-> Present(GetWeather), arguments |-> Present(ArgsText),
      response |-> Present(Sunny), error |-> Present(Timeout)]}

FunctionCallLists ==
    UNION {[1..n -> FunctionCalls] : n \in 1..MaxFunctionCalls}

Candidate(fcs) == [function_calls |-> fcs]

CandidateLists ==
    {AbsentList, RaisingList, Present(<<>>), Present(<<Candidate(AbsentList)>>),
     Present(<<Candidate(Present(<<>>))>>)}
    \cup {Present(<<Candidate(Present(l))>>) : l \in FunctionCallLists}

\* usage_metadata: each counter is an attribute of its own
Counter(has, n) == IF has THEN Present(n) ELSE [st |-> "absent", v |-> 0]
UsageObjects ==
    {[truthy |-> TRUE,
      prompt_token_count |-> Counter(p, 3),
      candidates_token_count |-> Counter(c, 2),
      total_token_count |-> Counter(t, 5)] : p \in BOOLEAN, c \in BOOLEAN, t \in BOOLEAN}
NoUsage ==
    [truthy |-> FALSE, prompt_token_count |-> Counter(FALSE, 0),
     candidates_token_count |-> Counter(FALSE, 0),
     total_token_count |-> Counter(FALSE, 0)]
UsageFields ==
    {[st |-> "absent", v |-> NoUsage], [st |-> "raises", v |-> NoUsage],
     [st |-> "present", v |-> NoUsage]}
    \cup {[st |-> "present", v |-> u] : u \in UsageObjects}

Responses ==
    [kind : {"response"},
     text : {Absent, Raising, Present(EmptyText), Present(Hi)},
     candidates : CandidateLists,
     usage_metadata : UsageFields]

\* the object an async original returns when called: none of the probed attributes
Coroutine ==
    [kind |-> "coroutine", text |-> Absent, candidates |-> AbsentList,
     usage_metadata |-> [st |-> "absent", v |-> NoUsage]]
NoResponse ==
    [kind |-> "none", text |-> Absent, candidates |-> AbsentList,
     usage_metadata |-> [st |-> "absent", v |-> NoUsage]]

QuotaExceeded == [type |-> "ValueError", msg |-> "quota exceeded", id |-> 1]
Unavailable == [type |-> "RuntimeError", msg |-> "service unavailable", id |-> 2]
\* raised by a property getter of the response (not an AttributeError)
PropertyError == [type |-> "ValueError", msg |-> "no valid part", id |-> 3]

Originals ==
    {[kind |-> "returns", resp |-> r, exc |-> NoExc] : r \in Responses}
    \cup {[kind |-> "raises", resp |-> NoResponse, exc |-> e] : e \in {QuotaExceeded, Unavailable}}
    \cup {[kind |-> "async", resp |-> NoResponse, exc |-> NoExc]}

Calls ==
    [self : Receivers, args : ArgLists,
     kwargs : [contents : KwContents, tools : KwTools],
     original : Originals]

NoOutcome == [kind |-> "none", value |-> NoResponse, exc |-> NoExc]

(***************************************************************************)
(* wrapped_generate_content, chat.py 34-122                                *)
(***************************************************************************)
\* model = getattr(self, "model_name", "unknown")
ModelOf(self) ==
    IF self.model_name.st = "present" THEN PyStr(self.model_name.v) ELSE "unknown"

\* the keyword wins over the positional argument
ContentsOfKeywordFirst(args, kwargs) ==
    IF kwargs.contents # Missing THEN kwargs.contents
    ELSE IF Len(args) > 0 THEN args[1] ELSE EmptyList

\* contents = args[0] if args else kwargs.get('contents', [])
ContentsOf(args, kwargs) ==
    IF Len(args) > 0 THEN args[1]
    ELSE IF kwargs.contents # Missing THEN kwargs.contents ELSE EmptyList

\* tools = kwargs.get('tools', [])
ToolsOf(kwargs) == IF kwargs.tools # Missing THEN kwargs.tools ELSE EmptyList

\* json.dumps(tools) if isinstance(tools, (list, dict)) else str(tools),
\* with str(tools) when json.dumps raises
ToolsStr(tools) ==
    IF isListOrDict(tools) /\ ~JsonRaises(tools) THEN tools.json ELSE PyStr(tools)

\* chat.py 52-60
RecordTools(sp, tools) ==
    IF tools.truthy
    THEN LET s1 == set_attribute(sp, "llm.request.tools", StrAttr(ToolsStr(tools)))
         IN IF tools.kind = "list"
            THEN set_attribute(s1, "llm.request.tool_count", IntAttr(tools.len))
            ELSE s1
    ELSE sp

\* chat.py 44-49
RecordRequest(sp, model, contents) ==
    LET s1 == set_attribute(sp, "llm.system", StrAttr("gemini"))
        s2 == set_attribute(s1, "llm.request.model", StrAttr(model))
    IN set_attribute(s2, "llm.request.messages", StrAttr(PyStr(contents)))

\* tracer.start_as_current_span(span_name), span_name = f"gemini.chat.generate_content {model}"
StartSpan(model) ==
    [NoSpan EXCEPT !.name = [op |-> "gemini.chat.generate_content", model |-> model],
                   !.started = TRUE, !.open = TRUE]

\* chat.py 35-60: open the span as the current span and record the request
Enter ==
    /\ pc = "idle"
    /\ LET model == ModelOf(call.self)
           contents == ContentsOf(call.args, call.kwargs)
           tools == ToolsOf(call.kwargs)
       IN span' = RecordTools(RecordRequest(StartSpan(model), model, contents), tools)
    /\ active' = TRUE
    /\ pc' = "try"
    /\ UNCHANGED <<call, origCalls, opState, response, exc, outcome>>
    /\ UNCHANGED <<instrVars, clientVars>>

\* chat.py 63: response = original_generate_content(self, *args, **kwargs)
Forwarded(c) == [self |-> c.self, args |-> c.args, kwargs |-> c.kwargs]

InvokeOriginal ==
    /\ pc = "try"
    /\ origCalls' = Append(origCalls, Forwarded(call))
    /\ \/ /\ call.original.kind = "returns"
          /\ response' = call.original.resp
          /\ opState' = "completed"
          /\ pc' = "got_response"
          /\ exc' = exc
       \/ /\ call.original.kind = "async"
          /\ response' = Coroutine
          /\ opState' = "pending"
          /\ pc' = "got_response"
          /\ exc' = exc
       \/ /\ call.original.kind = "raises"
          /\ exc' = call.original.exc
          /\ opState' = "failed"
          /\ pc' = "except"
          /\ response' = response
    /\ UNCHANGED <<call, span, active, outcome>>
    /\ UNCHANGED <<instrVars, clientVars>>

\* entries of the func_data dict
JsonAbsent == [has |-> FALSE, null |-> FALSE, s |-> ""]
JsonNull == [has |-> TRUE, null |-> TRUE, s |-> ""]
JsonString(s) == [has |-> TRUE, null |-> FALSE, s |-> s]

\* chat.py 80-91
ArgumentsEntry(fc) ==
    IF fc.arguments.st = "present" /\ fc.arguments.v.kind # "none"
    THEN LET a == fc.arguments.v
         IN IF isListOrDict(a) /\ ~JsonRaises(a)
            THEN JsonString(a.json)
            ELSE JsonString(PyStr(a))
    ELSE JsonNull

\* hasattr(obj, f) and obj.f, then str(obj.f)
TruthyEntry(field) ==
    IF field.st = "present" /\ field.v.truthy THEN JsonString(PyStr(field.v)) ELSE JsonAbsent

\* chat.py 76-97
FuncData(fc) ==
    [name |-> IF fc.name.st = "present" THEN JsonString(fc.name.v.repr) ELSE JsonNull,
     arguments |-> ArgumentsEntry(fc),
     response |-> TruthyEntry(fc.response),
     error |-> TruthyEntry(fc.error)]

\* chat.py 66-67
RecordText(sp, r) ==
    IF r.text.st = "present" /\ r.text.v.truthy
    THEN set_attribute(sp, "llm.response.content", StrAttr(PyStr(r.text.v)))
    ELSE sp

\* chat.py 70-105
RecordFunctionCalls(sp, r) ==
    IF r.candidates.st = "present" /\ Len(r.candidates.v) > 0
    THEN LET fcs == r.candidates.v[1].function_calls
         IN IF fcs.st = "present" /\ Len(fcs.v) > 0
            THEN LET data == [i \in 1..Len(fcs.v) |-> FuncData(fcs.v[i])]
                     s1 == set_attribute(sp, "llm.response.function_calls", JsonListAttr(data))
                 IN set_attribute(s1, "llm.response.function_call_count", IntAttr(Len(fcs.v)))
            ELSE sp
    ELSE sp

\* chat.py 107-114
RecordUsage(sp, r) ==
    IF r.usage_metadata.st = "present" /\ r.usage_metadata.v.truthy
    THEN LET usage == r.usage_metadata.v
             s1 == IF usage.prompt_token_count.st = "present"
                   THEN set_attribute(sp, "llm.usage.prompt_tokens", IntAttr(usage.prompt_token_count.v))
                   ELSE sp
             s2 == IF usage.candidates_token_count.st = "present"
                   THEN set_attribute(s1, "llm.usage.completion_tokens", IntAttr(usage.candidates_token_count.v))
                   ELSE s1
         IN IF usage.total_token_count.st = "present"
            THEN set_attribute(s2, "llm.usage.total_tokens", IntAttr(usage.total_token_count.v))
            ELSE s2
    ELSE sp

\* chat.py 66-116 inside the try block: hasattr() lets every exception but
\* AttributeError through, so a getter that raises leaves the block at that
\* line with the attributes set so far; otherwise the status is set to OK
ResponseAttributes(sp, r) ==
    IF r.text.st = "raises" THEN [raised |-> TRUE, span |-> sp]
    ELSE LET s1 == RecordText(sp, r)
         IN IF r.candidates.st = "raises" THEN [raised |-> TRUE, span |-> s1]
            ELSE LET s2 == RecordFunctionCalls(s1, r)
                 IN IF r.usage_metadata.st = "raises" THEN [raised |-> TRUE, span |-> s2]
                    ELSE [raised |-> FALSE,
                          span |-> set_status(RecordUsage(s2, r),
                                              [code |-> "OK", type |-> "", msg |-> ""])]

\* chat.py 66-117
RecordResponse ==
    /\ pc = "got_response"
    /\ LET res == ResponseAttributes(span, response)
       IN /\ span' = res.span
          /\ IF res.raised
             THEN /\ exc' = PropertyError
                  /\ pc' = "except"
                  /\ outcome' = outcome
             ELSE /\ exc' = exc
                  /\ pc' = "return"
                  /\ outcome' = [kind |-> "returned", value |-> response, exc |-> NoExc]
    /\ UNCHANGED <<call, active, origCalls, opState, response>>
    /\ UNCHANGED <<instrVars, clientVars>>

\* chat.py 119-122: except Exception as e
HandleException ==
    /\ pc = "except"
    /\ span' = set_status(record_exception(span, exc),
                          [code |-> "ERROR", type |-> "", msg |-> exc.msg])
    /\ outcome' = [kind |-> "raised", value |-> NoResponse, exc |-> exc]
    /\ pc' = "raising"
    /\ UNCHANGED <<call, active, origCalls, opState, response, exc>>
    /\ UNCHANGED <<instrVars, clientVars>>

\* chat.py 42: leaving the with block.  start_as_current_span is called with
\* its defaults (record_exception=True, set_status_on_exception=True,
\* end_on_exit=True): an exception leaving the block is recorded on the span
\* and the status set to ERROR with description "<type>: <message>"; the span
\* is ended and is no longer the current span
CloseScope(sp, e) ==
    LET s1 == IF e # NoExc
              THEN set_status(record_exception(sp, e),
                              [code |-> "ERROR", type |-> e.type, msg |-> e.msg])
              ELSE sp
    IN [s1 EXCEPT !.open = FALSE, !.ends = @ + 1]

ExitScope ==
    /\ pc \in {"return", "raising"}
    /\ span' = CloseScope(span, IF pc = "raising" THEN exc ELSE NoExc)
    /\ active' = FALSE
    /\ pc' = "done"
    /\ UNCHANGED <<call, origCalls, opState, response, exc, outcome>>
    /\ UNCHANGED <<instrVars, clientVars>>

\* the caller awaits the coroutine an async original returned
AwaitComplete ==
    /\ pc = "done"
    /\ opState = "pending"
    /\ opState' = "completed"
    /\ UNCHANGED <<pc, call, span, active, origCalls, response, exc, outcome>>
    /\ UNCHANGED <<instrVars, clientVars>>

(***************************************************************************)
(* instrument_chat (chat.py 10-31, 124) and instrument (__init__.py 3-14)  *)
(***************************************************************************)
\* chat.py 16-19: what the gRPC instrumentation raises, "" when it succeeds
GrpcRaises(e) ==
    CASE e.grpc = "absent" -> "ImportError"
      [] e.grpc = "raises" -> "RuntimeError"
      [] OTHER -> ""

\* except ImportError in place of except Exception
GrpcHandlerCatchesImportError(x) == x = "ImportError"

\* chat.py 20: except Exception
GrpcHandlerCatches(x) == x \in {"ImportError", "RuntimeError"}

\* chat.py 15-31, 124: [raised, depth, grpc] after one call of instrument_chat
instrument_chat(e, d, g) ==
    LET x == GrpcRaises(e)
        g1 == g \/ x = ""
    IN IF x # "" /\ ~GrpcHandlerCatches(x)
       THEN [raised |-> x, depth |-> d, grpc |-> g1]
       ELSE IF ~e.lib
            \* chat.py 26-29: except ImportError: return
            THEN [raised |-> "", depth |-> d, grpc |-> g1]
            \* chat.py 31, 124: wrap whatever is bound now and bind the wrapper
            ELSE [raised |-> "", depth |-> d + 1, grpc |-> g1]

\* __init__.py 9-14
instrument(e, d, g) ==
    IF ~e.lib
    THEN [raised |-> "", depth |-> d, grpc |-> g]
    ELSE LET r == instrument_chat(e, d, g)
         IN IF r.raised = "ImportError" THEN [r EXCEPT !.raised = ""] ELSE r

Instrument ==
    /\ instrCalls < MaxInstrument
    /\ LET r == instrument(env, depth, grpcInstrumented)
       IN /\ depth' = r.depth
          /\ grpcInstrumented' = r.grpc
          /\ lastInstr' = [op |-> "instrument", raised |-> r.raised]
    /\ instrCalls' = instrCalls + 1
    /\ UNCHANGED <<env, lastCall>>
    /\ UNCHANGED <<callVars, clientVars>>

InstrumentChat ==
    /\ instrCalls < MaxInstrument
    /\ LET r == instrument_chat(env, depth, grpcInstrumented)
       IN /\ depth' = r.depth
          /\ grpcInstrumented' = r.grpc
          /\ lastInstr' = [op |-> "instrument_chat", raised |-> r.raised]
    /\ instrCalls' = instrCalls + 1
    /\ UNCHANGED <<env, lastCall>>
    /\ UNCHANGED <<callVars, clientVars>>

\* chat.py 31, 42, 63: the wrapper bound by the d-th instrument_chat opens one
\* span and calls the function that was bound when it was created
RECURSIVE SpansOpened(_)
SpansOpened(d) == IF d = 0 THEN 0 ELSE 1 + SpansOpened(d - 1)

RECURSIVE OriginalInvocations(_)
OriginalInvocations(d) == IF d = 0 THEN 1 ELSE OriginalInvocations(d - 1)

\* one caller invocation of GenerativeModel.generate_content
CallGenerateContent ==
    /\ env.lib
    /\ lastCall' = [made |-> TRUE, after |-> instrCalls, spans |-> SpansOpened(depth),
                    originals |-> OriginalInvocations(depth)]
    /\ UNCHANGED <<env, depth, grpcInstrumented, instrCalls, lastInstr>>
    /\ UNCHANGED <<callVars, clientVars>>

(***************************************************************************)
(* AgentBay, client.py                                                     *)
(***************************************************************************)
ApiKeys == {"", "k"}
ApiUrls == {"", "https://host"}

NoLast ==
    [op |-> "none", ok |-> TRUE, ret |-> 0, err |-> "", key |-> "", url |-> "",
     buffered |-> {}, endedBefore |-> 0, tick |-> 0]

\* every API operation flips the tick of last
Tick == 1 - last.tick

\* Config(api_key=..., api_url=...): an argument left out falls back to the
\* environment
Resolve(arg, fallback) == IF arg # "" THEN arg ELSE fallback

Config(api_key, api_url) ==
    [api_key |-> Resolve(api_key, env.key), api_url |-> Resolve(api_url, env.url)]

\* config.validate() raises when api_key or api_url is empty
ValidateRaises(config) == config.api_key = "" \/ config.api_url = ""

\* client.py 17-39: the resource, the provider, the exporter and the batch processor
NewClient(config) ==
    [service |-> "agentbay-python-sdk",
     endpoint |-> [base |-> config.api_url, path |-> "/api/v1/traces"],
     authorization |-> [scheme |-> "Bearer", token |-> config.api_key],
     queue |-> <<>>, shut |-> FALSE]

\* client.py 43: trace.set_tracer_provider(self.tracer_provider); the tracing
\* API may keep a provider that is already installed
SetTracerProvider(id) ==
    IF globalProvider = 0 THEN {id} ELSE {globalProvider, id}

\* client.py 17-43: AgentBay.__init__
Construct(config) ==
    /\ clients' = Append(clients, NewClient(config))
    /\ globalProvider' \in SetTracerProvider(Len(clients) + 1)

\* the client is constructed before the configuration is validated
InitializeConstructsFirst(api_key, api_url) ==
    LET config == Config(api_key, api_url)
    IN /\ Len(clients) < MaxClients
       /\ Construct(config)
       /\ IF ValidateRaises(config)
          THEN /\ last' = [NoLast EXCEPT !.op = "initialize", !.ok = FALSE,
                                         !.err = "ConfigurationError",
                                         !.key = api_key, !.url = api_url, !.tick = Tick]
               /\ UNCHANGED <<instance, hist>>
          ELSE /\ instance' = Len(clients) + 1
               /\ hist' = Append(hist, Len(clients) + 1)
               /\ last' = [NoLast EXCEPT !.op = "initialize", !.ret = Len(clients) + 1,
                                         !.key = api_key, !.url = api_url, !.tick = Tick]
       /\ UNCHANGED <<ended, handed, dropped>>
       /\ UNCHANGED <<env, depth, grpcInstrumented, instrCalls, lastInstr, lastCall>>
       /\ UNCHANGED callVars

\* client.py 45-54: AgentBay.initialize
Initialize(api_key, api_url) ==
    LET config == Config(api_key, api_url)
    IN IF ValidateRaises(config)
       THEN /\ last' = [NoLast EXCEPT !.op = "initialize", !.ok = FALSE,
                                      !.err = "ConfigurationError",
                                      !.key = api_key, !.url = api_url, !.tick = Tick]
            /\ UNCHANGED <<instance, clients, globalProvider, hist>>
            /\ UNCHANGED <<ended, handed, dropped>>
            /\ UNCHANGED <<env, depth, grpcInstrumented, instrCalls, lastInstr, lastCall>>
            /\ UNCHANGED callVars
       ELSE /\ Len(clients) < MaxClients
            /\ Construct(config)
            /\ instance' = Len(clients) + 1
            /\ hist' = Append(hist, Len(clients) + 1)
            /\ last' = [NoLast EXCEPT !.op = "initialize", !.ret = Len(clients) + 1,
                                      !.key = api_key, !.url = api_url, !.tick = Tick]
            /\ UNCHANGED <<ended, handed, dropped>>
            /\ UNCHANGED <<env, depth, grpcInstrumented, instrCalls, lastInstr, lastCall>>
            /\ UNCHANGED callVars

\* None is returned when nothing was initialized
GetInstanceReturnsNone ==
    /\ last' = [NoLast EXCEPT !.op = "get_instance", !.ret = instance, !.tick = Tick]
    /\ UNCHANGED <<instance, clients, globalProvider, ended, handed, dropped, hist>>
    /\ UNCHANGED <<callVars, instrVars>>

\* client.py 56-66: AgentBay.get_instance
GetInstance ==
    /\ IF instance = 0
       THEN last' = [NoLast EXCEPT !.op = "get_instance", !.ok = FALSE,
                                   !.err = "RuntimeError", !.tick = Tick]
       ELSE last' = [NoLast EXCEPT !.op = "get_instance", !.ret = instance, !.tick = Tick]
    /\ UNCHANGED <<instance, clients, globalProvider, ended, handed, dropped, hist>>
    /\ UNCHANGED <<callVars, instrVars>>

QueueSet(c) == {clients[c].queue[i] : i \in 1..Len(clients[c].queue)}

\* self.tracer_provider.shutdown(): the batch processor hands what is still
\* queued to the exporter and stops; a second shutdown does nothing
ProviderShutdown(c) ==
    IF clients[c].shut
    THEN UNCHANGED <<clients, handed>>
    ELSE /\ handed' = handed \cup QueueSet(c)
         /\ clients' = [clients EXCEPT ![c].queue = <<>>, ![c].shut = TRUE]

\* the provider is never shut down
ShutdownSkipsProvider(c) ==
    /\ last' = [NoLast EXCEPT !.op = "shutdown", !.ret = c, !.buffered = QueueSet(c),
                              !.endedBefore = ended, !.tick = Tick]
    /\ UNCHANGED <<instance, clients, globalProvider, ended, handed, dropped, hist>>
    /\ UNCHANGED <<callVars, instrVars>>

\* client.py 68-73: AgentBay.shutdown, on any client the caller holds
Shutdown(c) ==
    /\ ProviderShutdown(c)
    /\ last' = [NoLast EXCEPT !.op = "shutdown", !.ret = c, !.buffered = QueueSet(c),
                              !.endedBefore = ended, !.tick = Tick]
    /\ UNCHANGED <<instance, globalProvider, ended, dropped, hist>>
    /\ UNCHANGED <<callVars, instrVars>>

\* a span ends: the installed provider's batch processor queues it, or drops
\* it when the queue is full or the processor was shut down (client.py 37-43)
EndSpan ==
    /\ globalProvider # 0
    /\ ended < MaxSpans
    /\ ended' = ended + 1
    /\ LET p == clients[globalProvider]
       IN IF p.shut \/ Len(p.queue) >= MaxQueue
          THEN /\ dropped' = dropped \cup {ended + 1}
               /\ UNCHANGED clients
          ELSE /\ clients' = [clients EXCEPT ![globalProvider].queue = Append(@, ended + 1)]
               /\ UNCHANGED dropped
    /\ UNCHANGED <<instance, globalProvider, handed, last, hist>>
    /\ UNCHANGED <<callVars, instrVars>>

\* the batch processor's background thread exports what is queued (client.py 37-38)
WorkerExport(c) ==
    /\ ~clients[c].shut
    /\ clients[c].queue # <<>>
    /\ handed' = handed \cup QueueSet(c)
    /\ clients' = [clients EXCEPT ![c].queue = <<>>]
    /\ UNCHANGED <<instance, globalProvider, ended, dropped, last, hist>>
    /\ UNCHANGED <<callVars, instrVars>>

(***************************************************************************)
(* Specifications                                                          *)
(***************************************************************************)
CallIdle ==
    /\ pc = "idle"
    /\ span = NoSpan
    /\ active = FALSE
    /\ origCalls = <<>>
    /\ opState = "none"
    /\ response = NoResponse
    /\ exc = NoExc
    /\ outcome = NoOutcome

InstrIdle ==
    /\ depth = 0
    /\ grpcInstrumented = FALSE
    /\ instrCalls = 0
    /\ lastInstr = [op |-> "none", raised |-> ""]
    /\ lastCall = [made |-> FALSE, after |-> 0, spans |-> 0, originals |-> 0]

ClientIdle ==
    /\ instance = 0
    /\ clients = <<>>
    /\ globalProvider = 0
    /\ ended = 0
    /\ handed = {}
    /\ dropped = {}
    /\ last = NoLast
    /\ hist = <<>>

Environments ==
    [lib : BOOLEAN, grpc : {"ok", "raises", "absent"}, key : {""}, url : {""}]

\* one wrapped call, its inputs and the original's behaviour drawn from Calls
Init ==
    /\ call \in Calls
    /\ CallIdle
    /\ env = [lib |-> TRUE, grpc |-> "ok", key |-> "", url |-> ""]
    /\ InstrIdle
    /\ ClientIdle

Next ==
    \/ Enter
    \/ InvokeOriginal
    \/ RecordResponse
    \/ HandleException
    \/ ExitScope
    \/ AwaitComplete

Spec == Init /\ [][Next]_vars

\* no wrapped call is in progress in the specifications below
CallUnused ==
    /\ pc = "unused"
    /\ call = <<>>
    /\ span = <<>>
    /\ active = FALSE
    /\ origCalls = <<>>
    /\ opState = "none"
    /\ response = <<>>
    /\ exc = <<>>
    /\ outcome = <<>>

InitInstr ==
    /\ CallUnused
    /\ env \in Environments
    /\ InstrIdle
    /\ ClientIdle

NextInstr ==
    \/ Instrument
    \/ InstrumentChat
    \/ CallGenerateContent

SpecInstr == InitInstr /\ [][NextInstr]_vars

InitClient ==
    /\ CallUnused
    /\ env \in [lib : {TRUE}, grpc : {"ok"}, key : {"", "env-k"}, url : {""}]
    /\ InstrIdle
    /\ ClientIdle

NextClient ==
    \/ \E api_key \in ApiKeys, api_url \in ApiUrls : Initialize(api_key, api_url)
    \/ GetInstance
    \/ \E c \in 1..Len(clients) : Shutdown(c)
    \/ EndSpan
    \/ \E c \in 1..Len(clients) : WorkerExport(c)

SpecClient == InitClient /\ [][NextClient]_vars

(***************************************************************************)
(* Properties of one wrapped call (specification Spec)                     *)
(***************************************************************************)
Returned == pc = "done" /\ call.original.kind = "returns"

\* C1: whenever the original returns R, the wrapper has invoked the original
\* exactly once with the caller's receiver, positional and keyword arguments,
\* and returns that same R without raising, whatever the shape of R
C1_ReturnsOriginalResult ==
    Returned =>
        /\ origCalls = <<[self |-> call.self, args |-> call.args, kwargs |-> call.kwargs]>>
        /\ outcome.kind = "returned"
        /\ outcome.value = call.original.resp
        /\ outcome.exc = NoExc

\* C2: whenever the original raises E, the finished span holds E as its only
\* recorded exception, its status is ERROR with message str(E), no response
\* attribute is set, and the caller receives E itself
C2_RaisesRecordedOnce ==
    (pc = "done" /\ call.original.kind = "raises") =>
        /\ span.events = <<call.original.exc>>
        /\ span.status = [code |-> "ERROR", type |-> "", msg |-> call.original.exc.msg]
        /\ outcome = [kind |-> "raised", value |-> NoResponse, exc |-> call.original.exc]
        /\ \A k \in ResponseKeys : span.attrs[k] = Unset

\* what the except handler of chat.py 119-122 has done when it re-raises:
\* one recorded exception, status ERROR with str(E), E itself in flight
HandlerRecordsOnce ==
    (pc = "raising" /\ call.original.kind = "raises") =>
        /\ span.events = <<call.original.exc>>
        /\ span.status = [code |-> "ERROR", type |-> "", msg |-> call.original.exc.msg]
        /\ exc = call.original.exc

\* C3: a finished span is ERROR with a recorded exception only if the original
\* raised, and is OK whenever the original returned, also when one optional
\* response attribute cannot be read
C3_ErrorOnlyIfOriginalRaised ==
    pc = "done" =>
        /\ (span.status.code = "ERROR" \/ span.events # <<>>) => call.original.kind = "raises"
        /\ call.original.kind = "returns" => span.status.code = "OK"
        /\ call.original.kind = "raises" => span.status.code = "ERROR"

\* the response fields the claim C9 ranges over: present or absent
Readable(r) ==
    /\ r.text.st # "raises"
    /\ r.candidates.st # "raises"
    /\ r.usage_metadata.st # "raises"

\* the function calls of the first candidate, <<>> when there are none
FunctionCallsOf(r) ==
    IF r.candidates.st = "present" /\ r.candidates.v # <<>>
    THEN r.candidates.v[1].function_calls.v
    ELSE <<>>

UsageCounterOf(r, field) ==
    IF r.usage_metadata.st = "present" /\ r.usage_metadata.v.truthy
    THEN r.usage_metadata.v[field]
    ELSE [st |-> "absent", v |-> 0]

UsageAttributeOk(r, key, field) ==
    LET c == UsageCounterOf(r, field)
    IN span.attrs[key] = (IF c.st = "present" THEN IntAttr(c.v) ELSE Unset)

\* C9: after a successful call on a response whose optional fields are each
\* present or absent, the span is named "gemini.chat.generate_content <model>"
\* ("unknown" without model_name), carries llm.system, llm.request.model and
\* llm.request.messages (string of the first positional argument, else of the
\* contents keyword), and each optional response attribute is set from its
\* field when the field is there and unset when it is not; nothing is raised
C9_AttributesFollowFields ==
    (Returned /\ Readable(call.original.resp)) =>
        LET r == call.original.resp
            a == span.attrs
            m == IF call.self.model_name.st = "present"
                 THEN call.self.model_name.v.repr ELSE "unknown"
            fcs == FunctionCallsOf(r)
        IN /\ outcome.kind = "returned"
           /\ span.status.code = "OK"
           /\ span.events = <<>>
           /\ span.name = [op |-> "gemini.chat.generate_content", model |-> m]
           /\ a["llm.system"] = StrAttr("gemini")
           /\ a["llm.request.model"] = StrAttr(m)
           /\ a["llm.request.messages"] =
                 StrAttr(IF call.args # <<>> THEN call.args[1].repr
                         ELSE IF call.kwargs.contents # Missing
                              THEN call.kwargs.contents.repr ELSE "[]")
           /\ r.text.st = "absent" => a["llm.response.content"] = Unset
           /\ a["llm.response.content"] # Unset =>
                 /\ r.text.st = "present"
                 /\ a["llm.response.content"] = StrAttr(r.text.v.repr)
           /\ (r.text.st = "present" /\ r.text.v.truthy) => a["llm.response.content"] # Unset
           /\ (fcs = <<>>) <=> (a["llm.response.function_calls"] = Unset)
           /\ (fcs = <<>>) <=> (a["llm.response.function_call_count"] = Unset)
           /\ fcs # <<>> =>
                 /\ a["llm.response.function_call_count"] = IntAttr(Len(fcs))
                 /\ a["llm.response.function_calls"].t = "json"
                 /\ Len(a["llm.response.function_calls"].items) = Len(fcs)
                 /\ \A i \in 1..Len(fcs) :
                        LET d == a["llm.response.function_calls"].items[i]
                        IN /\ d.name = (IF fcs[i].name.st = "present"
                                        THEN JsonString(fcs[i].name.v.repr) ELSE JsonNull)
                           /\ d.arguments.null <=> fcs[i].arguments.st = "absent"
                           /\ d.response.has <=> fcs[i].response.st = "present"
                           /\ d.error.has <=> fcs[i].error.st = "present"
           /\ UsageAttributeOk(r, "llm.usage.prompt_tokens", "prompt_token_count")
           /\ UsageAttributeOk(r, "llm.usage.completion_tokens", "candidates_token_count")
           /\ UsageAttributeOk(r, "llm.usage.total_tokens", "total_token_count")

\* a successful call with the keyword contents, a non-empty text, two function
\* calls and a usage object that has the prompt counter but no total
C9_Witness ==
    /\ Returned
    /\ Readable(call.original.resp)
    /\ call.args = <<>>
    /\ call.kwargs.contents = KwHello
    /\ call.self.model_name.st = "absent"
    /\ call.original.resp.text = Present(Hi)
    /\ Len(FunctionCallsOf(call.original.resp)) = 2
    /\ span.attrs["llm.usage.prompt_tokens"] = IntAttr(3)
    /\ span.attrs["llm.usage.total_tokens"] = Unset
    /\ span.attrs["llm.request.messages"] = StrAttr("from-keyword")

\* C10: the span is opened before the original is invoked, is the current
\* span for as long as the original operation has not completed, also when the
\* original is async, and is ended exactly once on every exit path
C10_SpanBracketsOperation ==
    /\ origCalls # <<>> => span.started
    /\ opState = "pending" => (span.open /\ active)
    /\ pc = "done" => span.ends = 1
    /\ pc # "done" => span.ends = 0

\* the part of C10 that does not involve an async original
SyncSpanBracketsOperation ==
    /\ origCalls # <<>> => span.started
    /\ (pc \in {"got_response", "except", "return", "raising"}) => (span.open /\ active)
    /\ pc = "done" => (span.ends = 1 /\ ~span.open /\ ~active)
    /\ pc # "done" => span.ends = 0

(***************************************************************************)
(* Properties of the instrumentation (specification SpecInstr)             *)
(***************************************************************************)
\* C4: once instrument() or instrument_chat() has been called, however often,
\* exactly one wrapper is bound on GenerativeModel.generate_content and it
\* wraps the true original: a caller invocation opens exactly one span and
\* invokes the true original exactly once
C4_SingleBinding ==
    (env.lib /\ instrCalls >= 1) =>
        /\ depth = 1
        /\ (lastCall.made /\ lastCall.after >= 1) =>
              (lastCall.spans = 1 /\ lastCall.originals = 1)

AnInstrumentStep ==
    /\ instrCalls' = instrCalls + 1
    /\ lastInstr'.op = "instrument"

\* C7: instrument() never raises, whatever is importable and whatever the gRPC
\* instrumentation does; after it the binding is installed if and only if the
\* target library is importable; without the library it changes nothing
C7_InstrumentBestEffort ==
    /\ [](lastInstr.op = "instrument" =>
            /\ lastInstr.raised = ""
            /\ (depth >= 1) <=> env.lib)
    /\ [][(AnInstrumentStep /\ ~env.lib) => UNCHANGED <<depth, grpcInstrumented>>]_vars

\* instrument() has installed the binding although the gRPC instrumentation raised
C7_Witness ==
    /\ lastInstr.op = "instrument"
    /\ env.lib
    /\ env.grpc = "raises"
    /\ depth >= 1
    /\ ~grpcInstrumented

(***************************************************************************)
(* Properties of the client lifecycle (specification SpecClient)           *)
(***************************************************************************)
ClientState == <<instance, clients, globalProvider, ended, handed, dropped, hist>>

AnApiStep(op) == last'.tick # last.tick /\ last'.op = op

\* C5 as stated: get_instance() raises while no initialize() has succeeded, and
\* once an initialize() has returned an instance every later get_instance()
\* returns that instance
C5_SameInstanceAsAnyInitialize ==
    last.op = "get_instance" =>
        IF hist = <<>>
        THEN ~last.ok /\ last.err = "RuntimeError"
        ELSE last.ok /\ \A i \in 1..Len(hist) : last.ret = hist[i]

\* C5 amended: get_instance() raises while no initialize() has succeeded,
\* otherwise it returns the instance the most recent successful initialize()
\* returned; get_instance() changes no state
C5_InstanceOfLastInitialize ==
    /\ [](last.op = "get_instance" =>
            IF hist = <<>>
            THEN ~last.ok /\ last.err = "RuntimeError" /\ last.ret = 0
            ELSE last.ok /\ last.ret = hist[Len(hist)])
    /\ [][AnApiStep("get_instance") => UNCHANGED ClientState]_vars

\* get_instance() after a second successful initialize(): the second instance
C5_Witness ==
    /\ last.op = "get_instance"
    /\ last.ok
    /\ last.ret = 2
    /\ hist = <<1, 2>>

\* C6: an initialize() whose api_key or api_url resolves to empty fails with
\* the configuration error and leaves the singleton, the constructed clients
\* (resource, exporter, batch processor), the tracer provider and the exported
\* spans exactly as they were
C6_InvalidConfigChangesNothing ==
    /\ [](last.op = "initialize" =>
            (last.ok <=> (Resolve(last.key, env.key) # "" /\ Resolve(last.url, env.url) # "")))
    /\ [](last.op = "initialize" /\ ~last.ok => last.err = "ConfigurationError")
    /\ [][(AnApiStep("initialize") /\ ~last'.ok) => UNCHANGED ClientState]_vars

\* a failed initialize() after a successful one: the first client is still the singleton
C6_Witness ==
    /\ last.op = "initialize"
    /\ ~last.ok
    /\ last.key = "k"
    /\ last.url = ""
    /\ instance = 1
    /\ Len(clients) = 1

====
